---- MODULE Spec2Model ----
(***************************************************************************)
(* The AssetStorage contract (contracts/AssetStorage.sol) executed by the  *)
(* EVM, together with its two kinds of callers: accounts that call         *)
(* register(cid) directly, and the UploadAndMint front end, whose          *)
(* handleMint uploads a file to IPFS and then calls register with the CID. *)
(*                                                                         *)
(* nextId, cids and log are the contract's storage and event log as every  *)
(* reader sees them (the state of the latest block).  A transaction runs   *)
(* in a frame holding its own working copy of that state; the statements   *)
(* of register act on the working copy one at a time, and the copy is      *)
(* written back when the call returns or dropped when it reverts.          *)
(***************************************************************************)
EXTENDS Integers, Sequences, FiniteSets

\* Width in bits of the handle counter.  The contract declares uint256; the
\* model keeps the fixed width and the checked increment and shrinks w.
W == 2

MaxUint == 2^W - 1

Handles == 0..MaxUint

\* Accounts that send transactions.
Callers == {"u1", "u2"}

\* Strings passed to register by direct callers: the empty string and a
\* string that is no CID (the contract never looks into the string).
CIDs == {"", "notacid"}

\* Files picked in the front end, and the CID the content store derives.
Blobs == {"fileA", "fileB"}

CidOf(b) == IF b = "fileA" THEN "QmA" ELSE "QmB"

\* What the getter cids(h) returns for a key never written: Solidity's
\* default value of string.
NotFound == ""

NoHandle == -1

VARIABLES nextId, cids, log, frame, tx, returned, attempted, client

vars == <<nextId, cids, log, frame, tx, returned, attempted, client>>

chain == <<nextId, cids, log>>

----------------------------------------------------------------------------
\* Status lines of the front end.
StUploading == "Uploading file to IPFS..."
StConnecting == "Connecting to wallet..."
StMinting == "Minting asset on-chain..."
StMinted == "Asset successfully minted!"
StError == "Error: "

NoFrame ==
    [caller |-> "", cid |-> "", pc |-> "none", id |-> 0,
     st |-> [nextId |-> 0, cids |-> [h \in Handles |-> ""], log |-> <<>>]]

NoTx == [status |-> "none", cid |-> "", handle |-> NoHandle, cause |-> "", conc |-> FALSE]

IdleClient == [pc |-> "idle", file |-> "", cid |-> "", status |-> ""]

\* The public getter of the mapping: a view, it reads the storage only.
Lookup(h) == cids[h]

\* A register that requires a non-empty CID.
AcceptsNonEmpty(c, cid) == cid # ""

\* register is external and has no modifier and no require: every caller
\* and every string is let in.
Accepts(c, cid) == TRUE

\* The id read after the increment instead of before it.
AssignIdAfterInc(st) == st.nextId + 1

\* id = nextId
AssignId(st) == st.nextId

\* The record written one key too low.
StoreAtPrevious(m, id, cid) == [m EXCEPT ![IF id > 0 THEN id - 1 ELSE 0] = cid]

\* cids[id] = cid
StoreAt(m, id, cid) == [m EXCEPT ![id] = cid]

\* The event carrying the counter after the increment.
EmitNextId(l, id, cid) == Append(l, [id |-> id + 1, cid |-> cid])

\* emit AssetRegistered(id, cid)
Emit(l, id, cid) == Append(l, [id |-> id, cid |-> cid])

\* The increment inside an unchecked block, or compiled before 0.8.
OverflowsUnchecked(n) == FALSE

\* nextId++ is checked arithmetic under pragma ^0.8.18: it panics on overflow.
Overflows(n) == n = MaxUint

\* The increment left out.
IncForgotten(n) == n

Inc(n) == (n + 1) % (2^W)

\* A revert that leaves the written record, or the emitted event, behind.
RollbackKeepsRecord(committed, working) == [committed EXCEPT !.cids = working.cids]

RollbackKeepsLog(committed, working) == [committed EXCEPT !.log = working.log]

\* The state a reverted call leaves behind: the one it started from.
Rollback(committed, working) == committed

Committed == [nextId |-> nextId, cids |-> cids, log |-> log]

----------------------------------------------------------------------------
Init ==
    /\ nextId = 0
    /\ cids = [h \in Handles |-> ""]
    /\ log = <<>>
    /\ frame = NoFrame
    /\ tx = [c \in Callers |-> NoTx]
    /\ returned = <<>>
    /\ attempted = NoHandle
    /\ client = [c \in Callers |-> IdleClient]

InFlight(c) == tx[c].status = "pending"

\* A new pending transaction of caller c; it and every transaction pending
\* at that moment are marked as concurrent.
Pend(c, cid) ==
    LET others == \E d \in Callers \ {c} : InFlight(d)
    IN  [d \in Callers |->
            IF d = c
            THEN [status |-> "pending", cid |-> cid, handle |-> NoHandle,
                  cause |-> "", conc |-> others]
            ELSE IF InFlight(d) THEN [tx[d] EXCEPT !.conc = TRUE] ELSE tx[d]]

\* An account sends register(cid) to the contract.
Submit(c, cid) ==
    /\ client[c].pc = "idle"
    /\ ~InFlight(c)
    /\ tx' = Pend(c, cid)
    /\ UNCHANGED <<nextId, cids, log, frame, returned, attempted, client>>

\* The call reverts: its working copy is dropped, the caller gets the cause.
Revert(cause) ==
    LET back == Rollback(Committed, frame.st)
    IN  /\ nextId' = back.nextId
        /\ cids' = back.cids
        /\ log' = back.log
        /\ tx' = [tx EXCEPT ![frame.caller] =
                     [@ EXCEPT !.status = "reverted", !.cause = cause]]
        /\ attempted' = IF frame.pc = "id" THEN frame.st.nextId ELSE frame.id
        /\ frame' = NoFrame
        /\ UNCHANGED <<returned, client>>

\* The EVM takes a pending transaction and starts to execute register.
Begin(c) ==
    /\ frame.pc = "none"
    /\ InFlight(c)
    /\ IF Accepts(c, tx[c].cid)
       THEN /\ frame' = [caller |-> c, cid |-> tx[c].cid, pc |-> "id", id |-> 0,
                         st |-> Committed]
            /\ UNCHANGED <<nextId, cids, log, tx, returned, attempted, client>>
       ELSE /\ tx' = [tx EXCEPT ![c] =
                         [@ EXCEPT !.status = "reverted", !.cause = "InvalidInput"]]
            /\ UNCHANGED <<nextId, cids, log, frame, returned, attempted, client>>

StepId ==
    /\ frame.pc = "id"
    /\ frame' = [frame EXCEPT !.id = AssignId(frame.st), !.pc = "store"]
    /\ UNCHANGED <<nextId, cids, log, tx, returned, attempted, client>>

StepStore ==
    /\ frame.pc = "store"
    /\ frame' = [frame EXCEPT !.st.cids = StoreAt(@, frame.id, frame.cid),
                              !.pc = "emit"]
    /\ UNCHANGED <<nextId, cids, log, tx, returned, attempted, client>>

StepEmit ==
    /\ frame.pc = "emit"
    /\ frame' = [frame EXCEPT !.st.log = Emit(@, frame.id, frame.cid),
                              !.pc = "inc"]
    /\ UNCHANGED <<nextId, cids, log, tx, returned, attempted, client>>

StepInc ==
    /\ frame.pc = "inc"
    /\ IF Overflows(frame.st.nextId)
       THEN Revert("Panic")
       ELSE /\ frame' = [frame EXCEPT !.st.nextId = Inc(@), !.pc = "ret"]
            /\ UNCHANGED <<nextId, cids, log, tx, returned, attempted, client>>

\* register returns id: the working copy becomes the state of the chain.
StepRet ==
    /\ frame.pc = "ret"
    /\ nextId' = frame.st.nextId
    /\ cids' = frame.st.cids
    /\ log' = frame.st.log
    /\ tx' = [tx EXCEPT ![frame.caller] =
                 [@ EXCEPT !.status = "ok", !.handle = frame.id]]
    /\ returned' = Append(returned, frame.id)
    /\ attempted' = NoHandle
    /\ frame' = NoFrame
    /\ UNCHANGED client

\* The call runs out of gas at any statement.
Fault ==
    /\ frame.pc \in {"id", "store", "emit", "inc", "ret"}
    /\ Revert("OutOfGas")

Exec == StepId \/ StepStore \/ StepEmit \/ StepInc \/ StepRet \/ Fault

Next ==
    \/ \E c \in Callers, cid \in CIDs : Submit(c, cid)
    \/ \E c \in Callers : Begin(c)
    \/ Exec

Spec == Init /\ [][Next]_vars

----------------------------------------------------------------------------
\* A catch block that logs to the console only.
CaughtSilently(cl) == [IdleClient EXCEPT !.status = cl.status]

\* catch (error): console.error(error); setStatus('Error: ' + error.message).
Caught(cl) == [IdleClient EXCEPT !.status = StError]

\* UploadAndMint.handleMint, one invocation per caller at a time.  The file
\* is the one selected when Mint is clicked (the button is disabled without
\* one); it is handed to ipfs.add before the first await.
MintClick(c, f) ==
    /\ client[c].pc = "idle"
    /\ ~InFlight(c)
    /\ client' = [client EXCEPT ![c] =
                     [pc |-> "upload", file |-> f, cid |-> "", status |-> StUploading]]
    /\ UNCHANGED <<nextId, cids, log, frame, tx, returned, attempted>>

\* await ipfs.add(file) resolves; cid = added.path.
UploadOk(c) ==
    /\ client[c].pc = "upload"
    /\ client' = [client EXCEPT ![c] =
                     [@ EXCEPT !.pc = "wallet", !.cid = CidOf(client[c].file),
                               !.status = StConnecting]]
    /\ UNCHANGED <<nextId, cids, log, frame, tx, returned, attempted>>

\* await provider.send('eth_requestAccounts') resolves; the contract object
\* is built with the signer.
WalletOk(c) ==
    /\ client[c].pc = "wallet"
    /\ client' = [client EXCEPT ![c] = [@ EXCEPT !.pc = "send", !.status = StMinting]]
    /\ UNCHANGED <<nextId, cids, log, frame, tx, returned, attempted>>

\* await contract.register(cid) resolves: the transaction is sent.
Send(c) ==
    /\ client[c].pc = "send"
    /\ tx' = Pend(c, client[c].cid)
    /\ client' = [client EXCEPT ![c] = [@ EXCEPT !.pc = "wait"]]
    /\ UNCHANGED <<nextId, cids, log, frame, returned, attempted>>

\* Any of the three awaits above rejects: the catch block shows the error.
MintFail(c) ==
    /\ client[c].pc \in {"upload", "wallet", "send"}
    /\ client' = [client EXCEPT ![c] = Caught(client[c])]
    /\ UNCHANGED <<nextId, cids, log, frame, tx, returned, attempted>>

\* await tx.wait() resolves once the transaction is mined.
WaitOk(c) ==
    /\ client[c].pc = "wait"
    /\ tx[c].status = "ok"
    /\ client' = [client EXCEPT ![c] = [IdleClient EXCEPT !.status = StMinted]]
    /\ tx' = [tx EXCEPT ![c] = NoTx]
    /\ UNCHANGED <<nextId, cids, log, frame, returned, attempted>>

\* await tx.wait() rejects: the transaction was mined and reverted.
WaitErr(c) ==
    /\ client[c].pc = "wait"
    /\ tx[c].status = "reverted"
    /\ client' = [client EXCEPT ![c] = Caught(client[c])]
    /\ tx' = [tx EXCEPT ![c] = NoTx]
    /\ UNCHANGED <<nextId, cids, log, frame, returned, attempted>>

NextMint ==
    \/ \E c \in Callers, f \in Blobs : MintClick(c, f)
    \/ \E c \in Callers : UploadOk(c)
    \/ \E c \in Callers : WalletOk(c)
    \/ \E c \in Callers : Send(c)
    \/ \E c \in Callers : MintFail(c)
    \/ \E c \in Callers : WaitOk(c)
    \/ \E c \in Callers : WaitErr(c)
    \/ \E c \in Callers : Begin(c)
    \/ Exec

SpecMint == Init /\ [][NextMint]_vars

----------------------------------------------------------------------------
\* Helpers of the properties below.
Succeeded(c) == tx[c].status = "ok"

Failed(c) == tx[c].status = "reverted"

\* The step reverts the call that is executing.
Reverts == frame.pc # "none" /\ tx'[frame.caller].status = "reverted"

\* The step returns from the call that is executing.
Returns == Len(returned') = Len(returned) + 1

EventIds(l) == {l[i].id : i \in 1..Len(l)}

----------------------------------------------------------------------------
\* C1: from a freshly deployed registry, the i-th successful register call
\* (i = 0, 1, ...) returns handle i, and after N of them nextId is N: the
\* handles come in increasing order with no gap and no reuse.
C1_SequentialHandles ==
    /\ nextId = Len(returned)
    /\ \A i \in 1..Len(returned) : returned[i] = i - 1

C1_Witness == Len(returned) >= 3 /\ nextId = Len(returned)

\* C2: registration is append-only: once handle h is assigned with CID c,
\* no later step, of a successful or of a failed call, changes what the
\* lookup of h returns.
C2_AppendOnly ==
    [][\A h \in Handles : h < nextId => Lookup(h)' = Lookup(h)]_vars

\* A record survives a later success and a later failure.
C2_Witness ==
    /\ nextId >= 2
    /\ Lookup(0) = "notacid"
    /\ attempted = nextId
    /\ \E c \in Callers : Failed(c)

\* C3: register calls pending at the same time from distinct callers are
\* given pairwise distinct handles, two that were pending together and both
\* succeeded are given adjacent handles, the handles issued so far are
\* exactly 0..nextId-1 without duplicates, and no call's record is
\* overwritten by another's.
C3_ConcurrentDistinct ==
    /\ \A c, d \in Callers :
          (c # d /\ Succeeded(c) /\ Succeeded(d)) =>
              /\ tx[c].handle # tx[d].handle
              /\ (tx[c].conc /\ tx[d].conc) =>
                     (tx[c].handle = tx[d].handle + 1 \/ tx[d].handle = tx[c].handle + 1)
    /\ \A c \in Callers :
          Succeeded(c) => (tx[c].handle < nextId /\ Lookup(tx[c].handle) = tx[c].cid)
    /\ {returned[i] : i \in 1..Len(returned)} = 0..(nextId - 1)
    /\ Cardinality({returned[i] : i \in 1..Len(returned)}) = Len(returned)

\* Two calls that were pending together have both succeeded, with
\* different CIDs.
C3_Witness ==
    \E c, d \in Callers :
        /\ c # d
        /\ Succeeded(c) /\ Succeeded(d)
        /\ tx[c].conc /\ tx[d].conc
        /\ tx[c].cid # tx[d].cid

\* C4: a register call that fails at any statement leaves no trace: nextId,
\* the records and the event log are as before the call, the lookup of the
\* handle it attempted returns NotFound, no event carries that handle, and
\* that handle is the one the next successful call returns.
C4_FailureAtomic ==
    [][/\ Reverts =>
            /\ chain' = chain
            /\ attempted' = nextId'
            /\ Lookup(attempted)' = NotFound
            /\ attempted' \notin EventIds(log')
       /\ (attempted # NoHandle /\ Returns) =>
            returned'[Len(returned')] = attempted]_vars

\* A call has failed after the record was written in its frame, after
\* earlier calls had succeeded.
C4_Witness ==
    /\ attempted # NoHandle
    /\ attempted > 0
    /\ \E c \in Callers : Failed(c) /\ tx[c].cause = "OutOfGas" /\ tx[c].cid # ""

\* C5 as stated: the handles whose lookup returns a record (anything but
\* NotFound) are exactly 0..nextId-1.
C5_RecordsExactlyBelowNextId ==
    {h \in Handles : Lookup(h) # NotFound} = {h \in Handles : h < nextId}

\* C5, amended: the lookup of h returns NotFound (the empty string a key
\* never written reads as) for every h >= nextId and the CID registered
\* under h for every h < nextId; the handles whose lookup differs from
\* NotFound are exactly those below nextId registered with a non-empty CID.
\* Lookup is a view of cids: it is an operator of the state and no step.
C5_LookupMatchesCounter ==
    /\ \A h \in Handles :
          /\ h >= nextId => Lookup(h) = NotFound
          /\ h < nextId => (log[h + 1].id = h /\ Lookup(h) = log[h + 1].cid)
    /\ {h \in Handles : Lookup(h) # NotFound}
           = {h \in Handles : h < nextId /\ log[h + 1].cid # ""}

\* The empty string is registered under handle 0 and a CID under handle 1.
C5_Witness ==
    /\ nextId = 2
    /\ Lookup(0) = NotFound
    /\ Lookup(1) = "notacid"
    /\ Lookup(2) = NotFound

\* C6: every successful register call publishes exactly one AssetRegistered
\* event, with the handle the call returned and the CID stored under it; a
\* failed call publishes none; and every event a reader can see has its
\* record committed.
C6_OneEventPerSuccess ==
    /\ Len(log) = Len(returned)
    /\ \A i \in 1..Len(log) :
          /\ log[i].id = returned[i]
          /\ log[i].id < nextId
          /\ Lookup(log[i].id) = log[i].cid
    /\ \A c \in Callers :
          Succeeded(c) =>
              Cardinality({i \in 1..Len(log) :
                              log[i] = [id |-> tx[c].handle, cid |-> tx[c].cid]}) = 1

\* Two events are published, and a call failed after its emit statement
\* without leaving one.
C6_Witness ==
    /\ Len(log) = 2
    /\ log[2] = [id |-> 1, cid |-> "notacid"]
    /\ attempted = 2
    /\ \E c \in Callers : Failed(c)

\* C7 as stated: in every reachable state every call is accepted and issues
\* a handle; the only calls that fail are those that ran out of gas.
C7_AlwaysAccepted ==
    \A c \in Callers : Failed(c) => tx[c].cause = "OutOfGas"

\* C7, amended: no call is rejected for its caller or its string: a call
\* that does not run out of gas fails only when nextId is at the maximum of
\* its type, and then whatever the caller and the string; two calls with
\* the same string both succeed, with distinct handles that both map to it.
C7_NoInputRejection ==
    /\ \A c \in Callers :
          Failed(c) =>
              \/ tx[c].cause = "OutOfGas"
              \/ tx[c].cause = "Panic" /\ nextId = MaxUint
    /\ \A c, d \in Callers :
          (c # d /\ Succeeded(c) /\ Succeeded(d) /\ tx[c].cid = tx[d].cid) =>
              /\ tx[c].handle # tx[d].handle
              /\ Lookup(tx[c].handle) = tx[c].cid
              /\ Lookup(tx[d].handle) = tx[c].cid

\* The empty string is registered by both callers, under two handles.
C7_Witness ==
    \E c, d \in Callers :
        /\ c # d
        /\ Succeeded(c) /\ Succeeded(d)
        /\ tx[c].cid = "" /\ tx[d].cid = ""
        /\ tx[c].handle # tx[d].handle

\* Replay of a persisted log of (handle, cid) pairs into an empty registry:
\* each pair is stored, and the counter is max(handle) + 1, or 0 for an
\* empty log.
RECURSIVE ReplayRecords(_, _)
ReplayRecords(m, l) ==
    IF l = <<>> THEN m
    ELSE ReplayRecords([m EXCEPT ![Head(l).id] = Head(l).cid], Tail(l))

MaxOf(S) == CHOOSE x \in S : \A y \in S : y <= x

ReplayCounter(l) == IF l = <<>> THEN 0 ELSE MaxOf(EventIds(l)) + 1

\* C8: in every reachable state, replaying the log of published
\* registrations into an empty registry gives the current state: the same
\* record under every handle and the same counter, so that the registry
\* restarted from the log issues a handle that was never issued before.
C8_ReplayRebuildsState ==
    /\ ReplayRecords([h \in Handles |-> ""], log) = cids
    /\ ReplayCounter(log) = nextId
    /\ \A i \in 1..Len(returned) : returned[i] # ReplayCounter(log)

\* The log of scenario 5, with two different strings.
C8_Witness ==
    /\ Len(log) = 2
    /\ log[1].cid # log[2].cid
    /\ ReplayCounter(log) = 2

\* C9: in handleMint, register is sent only after the upload of that
\* invocation has succeeded, and with exactly the CID the upload returned; a
\* failed upload or wallet connection sends nothing, leaves the registry as
\* it was and ends in the error status; a reverted transaction ends in the
\* error status too; the success status appears only once the transaction
\* is mined and the record is readable.
C9_UploadThenRegister ==
    /\ [](\A c \in Callers :
            /\ client[c].pc \in {"wallet", "send", "wait"} =>
                   client[c].cid = CidOf(client[c].file)
            /\ tx[c].status # "none" =>
                   (client[c].pc = "wait" /\ tx[c].cid = client[c].cid))
    /\ [][\A c \in Callers :
            /\ (client[c].pc \in {"upload", "wallet"} /\ client'[c].pc = "idle") =>
                   /\ client'[c].status = StError
                   /\ tx' = tx
                   /\ chain' = chain
            /\ (client[c].pc = "wait" /\ Failed(c) /\ client'[c] # client[c]) =>
                   client'[c].status = StError
            /\ (client'[c].status = StMinted /\ client[c].status # StMinted) =>
                   /\ client[c].pc = "wait"
                   /\ Succeeded(c)
                   /\ tx[c].cid = CidOf(client[c].file)
                   /\ Lookup(tx[c].handle) = tx[c].cid]_vars

\* One invocation has minted fileA and fileB's upload by the other caller
\* has failed, with nothing but fileA's CID on the chain.
C9_Witness ==
    /\ client["u1"].status = StMinted
    /\ client["u2"].status = StError
    /\ nextId = 1
    /\ log = <<[id |-> 0, cid |-> "QmA"]>>
    /\ attempted = NoHandle

\* C10: the counter never wraps: a step never lowers nextId; the increment
\* at the maximum of the type reverts the whole call (records, log and
\* counter as before, the caller told so); and no handle is returned twice.
C10_NoWrapAround ==
    /\ [](\A i, j \in 1..Len(returned) : i # j => returned[i] # returned[j])
    /\ [][/\ nextId' >= nextId
          /\ (frame.pc = "inc" /\ frame.st.nextId = MaxUint /\ frame' # frame) =>
                /\ chain' = chain
                /\ tx'[frame.caller].status = "reverted"
                /\ tx'[frame.caller].cause \in {"Panic", "OutOfGas"}
                /\ frame'.pc = "none"
          /\ \A h \in Handles : Lookup(h) # NotFound => Lookup(h)' = Lookup(h)]_vars

\* A call was made with the counter at its maximum and panicked.
C10_Witness ==
    /\ nextId = MaxUint
    /\ \E c \in Callers : Failed(c) /\ tx[c].cause = "Panic"

====
